---- MODULE Spec2Model ----
(***************************************************************************)
(* A model of js/script.js: the throttle utility and the typewriter        *)
(* effect.  Times are clock readings of Date.now() in milliseconds; text   *)
(* is a sequence of one-character strings.                                  *)
(***************************************************************************)
EXTENDS Integers, Sequences, FiniteSets, TLC

(* ------------------------------ bounds --------------------------------- *)
MaxTime == 6
MaxStep == 2
MaxWait == 2
MaxCalls == 3
MaxTicks == 104
MaxMsgs == 3
MaxLen == 2
PageTime == 4
PageCalls == 2
PageTicks == 8
LoadTime == 1000
MaxScrolls == 3
MaxClicks == 3
MaxTopClicks == 2

VARIABLES
  now,        \* the reading Date.now() returns
  wait,       \* wait[w]: the wait a wrapper was constructed with
  last,       \* last[w]: the closure variable `last` of wrapper w
  invoked,    \* invoked[w]: how many times wrapper w has been invoked
  fnLog,      \* fnLog[w]: the clock readings at which w's fn was called
  inv,        \* the latest wrapper invocation, as observed from outside
  messages,   \* the list of messages
  typeEl,     \* TRUE iff document.getElementById("typewriter") is an element
  msgIdx,
  charIdx,
  deleting,
  innerHTML,  \* typeEl.innerHTML
  timers,     \* delays of the pending setTimeout(typewriter, delay) calls
  loaded,     \* TRUE once DOMContentLoaded has been dispatched
  ticks,      \* how many times typewriter() has rendered
  ran,        \* the latest tick: the state it read, what it rendered, its delay
  prev,       \* the tick before the latest one
  shownFull,  \* the current message was rendered in full since msgIdx last advanced
  cycles,     \* how many times the last rule (advance msgIdx) has been applied
  scrollY,    \* window.scrollY
  navBlur,    \* TRUE iff #navbar carries the blurred classes (backdrop-blur-md, ...)
  btnShow,    \* TRUE iff #scrollTopBtn carries class show
  scrolls,    \* how many scroll events have been delivered
  navActive,  \* TRUE iff #navToggle carries class hamburger-active
  menuHidden, \* TRUE iff #mobileMenu carries class hidden
  menuFaded,  \* TRUE iff #mobileMenu carries opacity-0 and -translate-y-4
  menuTimers, \* the pending menu timers, in the order they were set
  menuClock,  \* the clock setTimeout runs on
  clicks,     \* how many clicks the menu has received
  frameTs,    \* the timestamp of the latest animation frame
  chains,     \* chains[k]: the scrollStep chain of the k-th click on #scrollTopBtn
  topClicks   \* how many clicks #scrollTopBtn has received

thVars == <<now, wait, last, invoked, fnLog, inv>>
twVars == <<messages, typeEl, msgIdx, charIdx, deleting, innerHTML, timers,
            loaded, ticks, ran, prev, shownFull, cycles>>
scVars == <<scrollY, navBlur, btnShow, scrolls>>
mnVars == <<navActive, menuHidden, menuFaded, menuTimers, menuClock, clicks>>
tpVars == <<frameTs, chains, topClicks>>
vars == <<now, wait, last, invoked, fnLog, inv, messages, typeEl, msgIdx,
          charIdx, deleting, innerHTML, timers, loaded, ticks, ran, prev,
          shownFull, cycles, scrollY, navBlur, btnShow, scrolls, navActive,
          menuHidden, menuFaded, menuTimers, menuClock, clicks, frameTs,
          chains, topClicks>>

(* ------------------------------ throttle ------------------------------- *)
Wrappers == {"navbar", "scrollTop"}

NoInv == [w |-> "none", at |-> 0, called |-> FALSE, first |-> FALSE,
          lastBefore |-> 0, logBefore |-> <<>>]

\* a wrapper that forwards only when strictly more than wait has passed
ThrottleStrict(l, wt, t) ==
  IF t - l > wt THEN [last |-> t, call |-> TRUE]
                ELSE [last |-> l, call |-> FALSE]

\* a wrapper that restarts the window on every invocation
ThrottleRestart(l, wt, t) ==
  IF t - l >= wt THEN [last |-> t, call |-> TRUE]
                 ELSE [last |-> t, call |-> FALSE]

\* the body of the wrapper: l is `last`, wt is `wait`, t is `now`
Throttle(l, wt, t) ==
  IF t - l >= wt THEN [last |-> t, call |-> TRUE]
                 ELSE [last |-> l, call |-> FALSE]

\* fn.apply(this, args): the callback runs; its call is observed in fnLog
FnApply(w, t) == [fnLog EXCEPT ![w] = Append(@, t)]

InitThrottle ==
  /\ now \in 0..MaxStep
  /\ wait \in [Wrappers -> 0..MaxWait]
  /\ last = [w \in Wrappers |-> 0]
  /\ invoked = [w \in Wrappers |-> 0]
  /\ fnLog = [w \in Wrappers |-> <<>>]
  /\ inv = NoInv

\* time passes between two events
ClockAdvance ==
  /\ \E d \in 1..MaxStep :
       /\ now + d <= MaxTime
       /\ now' = now + d
  /\ UNCHANGED <<wait, last, invoked, fnLog, inv>>

\* an invocation of w when `last` is one variable shared by all the wrappers
InvokeShared(w) ==
  /\ invoked[w] < MaxCalls
  /\ LET r == Throttle(last[w], wait[w], now) IN
       /\ last' = [v \in Wrappers |-> r.last]
       /\ fnLog' = IF r.call THEN FnApply(w, now) ELSE fnLog
       /\ inv' = [w |-> w, at |-> now, called |-> r.call,
                  first |-> (invoked[w] = 0),
                  lastBefore |-> last[w], logBefore |-> fnLog[w]]
  /\ invoked' = [invoked EXCEPT ![w] = @ + 1]
  /\ UNCHANGED <<now, wait>>

\* one invocation of wrapper w (a scroll event reaching its listener)
Invoke(w) ==
  /\ invoked[w] < MaxCalls
  /\ LET r == Throttle(last[w], wait[w], now) IN
       /\ last' = [last EXCEPT ![w] = r.last]
       /\ fnLog' = IF r.call THEN FnApply(w, now) ELSE fnLog
       /\ inv' = [w |-> w, at |-> now, called |-> r.call,
                  first |-> (invoked[w] = 0),
                  lastBefore |-> last[w], logBefore |-> fnLog[w]]
  /\ invoked' = [invoked EXCEPT ![w] = @ + 1]
  /\ UNCHANGED <<now, wait>>

ThrottleNext == ClockAdvance \/ \E w \in Wrappers : Invoke(w)

(* ----------------------------- typewriter ------------------------------ *)
Hello == <<"H", "e", "l", "l", "o">>
Welcome == <<"W", "e", "l", "c", "o", "m", "e">>
ImSyalom == <<"I", "'", "m", " ", "S", "y", "a", "l", "o", "m">>
Messages == <<Hello, Welcome, ImSyalom>>

\* other message lists the typewriter is run on: the one-message list "Hi" and
\* every list of up to MaxMsgs words of lengths 0..MaxLen
Hi == <<"H", "i">>
Alphabet == <<"a", "b", "c", "d", "e">>
Word(n) == [i \in 1..n |-> Alphabet[((i - 1) % Len(Alphabet)) + 1]]
Words == {Word(n) : n \in 0..MaxLen}
MessageLists ==
  {Messages, <<Hi>>} \cup UNION {[1..k -> Words] : k \in 1..MaxMsgs}

icons == <<"<i class='fas fa-globe'></i>", "<i class='fas fa-angle-right'></i>">>
cursor == "<span class='cursor'></span>"

RevealDelay == 100
HoldDelay == 1500
DeleteDelay == 50
AdvanceDelay == 500

Min(a, b) == IF a < b THEN a ELSE b
Max(a, b) == IF a > b THEN a ELSE b

\* a substring that includes the character at index b
SubstringInclusive(s, a, b) ==
  LET ca == Max(0, Min(a, Len(s)))
      cb == Max(0, Min(b + 1, Len(s)))
  IN SubSeq(s, Min(ca, cb) + 1, Max(ca, cb))

\* String.prototype.substring(a, b): both indices are clamped to [0, length]
\* and swapped when a > b
Substring(s, a, b) ==
  LET ca == Max(0, Min(a, Len(s)))
      cb == Max(0, Min(b, Len(s)))
  IN SubSeq(s, Min(ca, cb) + 1, Max(ca, cb))

\* the text between the icons and the cursor span of a rendered innerHTML
Rendered(html) == SubSeq(html, Len(icons) + 1, Len(html) - 1)

\* the reveal rule tests charIdx <= length
TypewriterStepOverrun(msgs, m, c, d) ==
  IF ~d /\ c <= Len(msgs[m + 1])
    THEN [msgIdx |-> m, charIdx |-> c + 1, deleting |-> d, delay |-> RevealDelay]
  ELSE IF ~d
    THEN [msgIdx |-> m, charIdx |-> c, deleting |-> TRUE, delay |-> HoldDelay]
  ELSE IF d /\ c > 0
    THEN [msgIdx |-> m, charIdx |-> c - 1, deleting |-> d, delay |-> DeleteDelay]
  ELSE [msgIdx |-> (m + 1) % Len(msgs), charIdx |-> c, deleting |-> FALSE,
        delay |-> AdvanceDelay]

\* the last rule skips a message
TypewriterStepSkip(msgs, m, c, d) ==
  IF ~d /\ c < Len(msgs[m + 1])
    THEN [msgIdx |-> m, charIdx |-> c + 1, deleting |-> d, delay |-> RevealDelay]
  ELSE IF ~d
    THEN [msgIdx |-> m, charIdx |-> c, deleting |-> TRUE, delay |-> HoldDelay]
  ELSE IF d /\ c > 0
    THEN [msgIdx |-> m, charIdx |-> c - 1, deleting |-> d, delay |-> DeleteDelay]
  ELSE [msgIdx |-> (m + 2) % Len(msgs), charIdx |-> c, deleting |-> FALSE,
        delay |-> AdvanceDelay]

\* the delete rule schedules with the reveal pace
TypewriterStepSlowDelete(msgs, m, c, d) ==
  IF ~d /\ c < Len(msgs[m + 1])
    THEN [msgIdx |-> m, charIdx |-> c + 1, deleting |-> d, delay |-> RevealDelay]
  ELSE IF ~d
    THEN [msgIdx |-> m, charIdx |-> c, deleting |-> TRUE, delay |-> HoldDelay]
  ELSE IF d /\ c > 0
    THEN [msgIdx |-> m, charIdx |-> c - 1, deleting |-> d, delay |-> RevealDelay]
  ELSE [msgIdx |-> (m + 1) % Len(msgs), charIdx |-> c, deleting |-> FALSE,
        delay |-> AdvanceDelay]

\* the delete rule leaves the deleting mode as soon as charIdx reaches 0
TypewriterStepEarlyFlip(msgs, m, c, d) ==
  IF ~d /\ c < Len(msgs[m + 1])
    THEN [msgIdx |-> m, charIdx |-> c + 1, deleting |-> d, delay |-> RevealDelay]
  ELSE IF ~d
    THEN [msgIdx |-> m, charIdx |-> c, deleting |-> TRUE, delay |-> HoldDelay]
  ELSE IF d /\ c > 0
    THEN [msgIdx |-> m, charIdx |-> c - 1, deleting |-> (c - 1 > 0),
          delay |-> DeleteDelay]
  ELSE [msgIdx |-> (m + 1) % Len(msgs), charIdx |-> c, deleting |-> FALSE,
        delay |-> AdvanceDelay]

\* the reveal rule steps by two characters
TypewriterStepDoubleReveal(msgs, m, c, d) ==
  IF ~d /\ c < Len(msgs[m + 1])
    THEN [msgIdx |-> m, charIdx |-> c + 2, deleting |-> d, delay |-> RevealDelay]
  ELSE IF ~d
    THEN [msgIdx |-> m, charIdx |-> c, deleting |-> TRUE, delay |-> HoldDelay]
  ELSE IF d /\ c > 0
    THEN [msgIdx |-> m, charIdx |-> c - 1, deleting |-> d, delay |-> DeleteDelay]
  ELSE [msgIdx |-> (m + 1) % Len(msgs), charIdx |-> c, deleting |-> FALSE,
        delay |-> AdvanceDelay]

\* the delete rule steps by two characters
TypewriterStepDoubleDelete(msgs, m, c, d) ==
  IF ~d /\ c < Len(msgs[m + 1])
    THEN [msgIdx |-> m, charIdx |-> c + 1, deleting |-> d, delay |-> RevealDelay]
  ELSE IF ~d
    THEN [msgIdx |-> m, charIdx |-> c, deleting |-> TRUE, delay |-> HoldDelay]
  ELSE IF d /\ c > 0
    THEN [msgIdx |-> m, charIdx |-> c - 2, deleting |-> d, delay |-> DeleteDelay]
  ELSE [msgIdx |-> (m + 1) % Len(msgs), charIdx |-> c, deleting |-> FALSE,
        delay |-> AdvanceDelay]

\* the last rule stays on the same message
TypewriterStepNoAdvance(msgs, m, c, d) ==
  IF ~d /\ c < Len(msgs[m + 1])
    THEN [msgIdx |-> m, charIdx |-> c + 1, deleting |-> d, delay |-> RevealDelay]
  ELSE IF ~d
    THEN [msgIdx |-> m, charIdx |-> c, deleting |-> TRUE, delay |-> HoldDelay]
  ELSE IF d /\ c > 0
    THEN [msgIdx |-> m, charIdx |-> c - 1, deleting |-> d, delay |-> DeleteDelay]
  ELSE [msgIdx |-> m, charIdx |-> c, deleting |-> FALSE, delay |-> AdvanceDelay]

\* the if/else chain of typewriter(): m, c, d are msgIdx, charIdx, deleting
TypewriterStep(msgs, m, c, d) ==
  IF ~d /\ c < Len(msgs[m + 1])
    THEN [msgIdx |-> m, charIdx |-> c + 1, deleting |-> d, delay |-> RevealDelay]
  ELSE IF ~d
    THEN [msgIdx |-> m, charIdx |-> c, deleting |-> TRUE, delay |-> HoldDelay]
  ELSE IF d /\ c > 0
    THEN [msgIdx |-> m, charIdx |-> c - 1, deleting |-> d, delay |-> DeleteDelay]
  ELSE [msgIdx |-> (m + 1) % Len(msgs), charIdx |-> c, deleting |-> FALSE,
        delay |-> AdvanceDelay]

NoTick == [n |-> -1, msgIdx |-> 0, charIdx |-> 0, deleting |-> FALSE,
           txt |-> <<>>, delay |-> 0]

InitTypewriter ==
  /\ messages \in MessageLists
  /\ typeEl \in BOOLEAN
  /\ msgIdx = 0
  /\ charIdx = 0
  /\ deleting = FALSE
  /\ innerHTML = <<>>
  /\ timers = <<>>
  /\ loaded = FALSE
  /\ ticks = 0
  /\ ran = NoTick
  /\ prev = NoTick
  /\ shownFull = FALSE
  /\ cycles = 0

\* a typewriter that retries later when the display target is absent
TypewriterRetry(pending) ==
  IF ~typeEl
    THEN /\ timers' = Append(pending, RevealDelay)
         /\ UNCHANGED <<msgIdx, charIdx, deleting, innerHTML, ticks, ran, prev,
                        shownFull, cycles>>
    ELSE LET txt == Substring(messages[msgIdx + 1], 0, charIdx)
             s == TypewriterStep(messages, msgIdx, charIdx, deleting)
             advance == deleting /\ ~s.deleting
         IN /\ innerHTML' = icons \o txt \o <<cursor>>
            /\ msgIdx' = s.msgIdx
            /\ charIdx' = s.charIdx
            /\ deleting' = s.deleting
            /\ timers' = Append(pending, s.delay)
            /\ ticks' = ticks + 1
            /\ ran' = [n |-> ticks, msgIdx |-> msgIdx, charIdx |-> charIdx,
                       deleting |-> deleting, txt |-> txt, delay |-> s.delay]
            /\ prev' = ran
            /\ shownFull' = IF advance THEN FALSE
                            ELSE shownFull \/ txt = messages[msgIdx + 1]
            /\ cycles' = IF advance THEN cycles + 1 ELSE cycles

\* a typewriter whose hold rule schedules the next tick twice
TypewriterDoubleSchedule(pending) ==
  IF ~typeEl
    THEN /\ timers' = pending
         /\ UNCHANGED <<msgIdx, charIdx, deleting, innerHTML, ticks, ran, prev,
                        shownFull, cycles>>
    ELSE LET txt == Substring(messages[msgIdx + 1], 0, charIdx)
             s == TypewriterStep(messages, msgIdx, charIdx, deleting)
             advance == deleting /\ ~s.deleting
         IN /\ innerHTML' = icons \o txt \o <<cursor>>
            /\ msgIdx' = s.msgIdx
            /\ charIdx' = s.charIdx
            /\ deleting' = s.deleting
            /\ timers' = IF s.delay = HoldDelay
                           THEN Append(Append(pending, s.delay), s.delay)
                           ELSE Append(pending, s.delay)
            /\ ticks' = ticks + 1
            /\ ran' = [n |-> ticks, msgIdx |-> msgIdx, charIdx |-> charIdx,
                       deleting |-> deleting, txt |-> txt, delay |-> s.delay]
            /\ prev' = ran
            /\ shownFull' = IF advance THEN FALSE
                            ELSE shownFull \/ txt = messages[msgIdx + 1]
            /\ cycles' = IF advance THEN cycles + 1 ELSE cycles

\* the tick and cycle counts observe the run; they stop counting at MaxTicks
Count(n) == IF n < MaxTicks THEN n + 1 ELSE n

\* one run of typewriter(); pending is the timers left once the caller's own
\* timer, if any, has been taken off the queue
Typewriter(pending) ==
  IF ~typeEl
    THEN /\ timers' = pending
         /\ UNCHANGED <<msgIdx, charIdx, deleting, innerHTML, ticks, ran, prev,
                        shownFull, cycles>>
    ELSE LET txt == Substring(messages[msgIdx + 1], 0, charIdx)
             s == TypewriterStep(messages, msgIdx, charIdx, deleting)
             advance == deleting /\ ~s.deleting
         IN /\ innerHTML' = icons \o txt \o <<cursor>>
            /\ msgIdx' = s.msgIdx
            /\ charIdx' = s.charIdx
            /\ deleting' = s.deleting
            /\ timers' = Append(pending, s.delay)
            /\ ticks' = Count(ticks)
            /\ ran' = [n |-> ticks, msgIdx |-> msgIdx, charIdx |-> charIdx,
                       deleting |-> deleting, txt |-> txt, delay |-> s.delay]
            /\ prev' = ran
            /\ shownFull' = IF advance THEN FALSE
                            ELSE shownFull \/ txt = messages[msgIdx + 1]
            /\ cycles' = IF advance THEN Count(cycles) ELSE cycles

\* document.addEventListener("DOMContentLoaded", typewriter)
DOMContentLoaded ==
  /\ ~loaded
  /\ loaded' = TRUE
  /\ Typewriter(timers)
  /\ UNCHANGED <<messages, typeEl>>

\* a pending setTimeout(typewriter, delay) expires
TimerExpires ==
  /\ \E i \in 1..Len(timers) :
       Typewriter(SubSeq(timers, 1, i - 1) \o SubSeq(timers, i + 1, Len(timers)))
  /\ UNCHANGED <<messages, typeEl, loaded>>

\* the expiries counted one by one, up to MaxTicks ticks
TimerFires == ticks < MaxTicks /\ TimerExpires

TypewriterNext == DOMContentLoaded \/ TimerFires

(* ------------------------- scroll presentation ------------------------- *)
ScrollWait == 50
NavThreshold == 50
BtnThreshold == 200

\* the scroll positions tried: both thresholds, just above them, and the top
ScrollYs == {0, NavThreshold, NavThreshold + 1, BtnThreshold, BtnThreshold + 1}

\* the time that may pass between two scroll events
ScrollSteps == {ScrollWait - 1, ScrollWait}
ScrollSpan == 3 * ScrollWait

\* the navbar callback: TRUE iff it leaves the blurred classes on #navbar
NavbarFn(y) == y > NavThreshold

\* the scroll-top callback: TRUE iff it leaves class show on #scrollTopBtn
ScrollTopFn(y) == y > BtnThreshold

ScrollConstructed ==
  /\ scrollY = 0
  /\ navBlur = FALSE
  /\ btnShow = FALSE
  /\ scrolls = 0

ScrollClock ==
  /\ \E d \in ScrollSteps :
       /\ now + d <= LoadTime + ScrollSpan
       /\ now' = now + d
  /\ UNCHANGED <<wait, last, invoked, fnLog, inv, scrollY, navBlur, btnShow,
                 scrolls>>

\* the window is scrolled to y and the scroll event is dispatched to the two
\* listeners, the navbar one first
ScrollEvent(y) ==
  /\ scrolls < MaxScrolls
  /\ scrollY' = y
  /\ scrolls' = scrolls + 1
  /\ LET n == Throttle(last["navbar"], wait["navbar"], now)
         t == Throttle(last["scrollTop"], wait["scrollTop"], now)
         log1 == IF n.call THEN FnApply("navbar", now) ELSE fnLog
     IN /\ last' = [last EXCEPT !["navbar"] = n.last, !["scrollTop"] = t.last]
        /\ navBlur' = IF n.call THEN NavbarFn(y) ELSE navBlur
        /\ btnShow' = IF t.call THEN ScrollTopFn(y) ELSE btnShow
        /\ fnLog' = IF t.call THEN [log1 EXCEPT !["scrollTop"] = Append(@, now)]
                              ELSE log1
        /\ inv' = [w |-> "scrollTop", at |-> now, called |-> t.call,
                   first |-> (invoked["scrollTop"] = 0),
                   lastBefore |-> last["scrollTop"],
                   logBefore |-> fnLog["scrollTop"]]
  /\ invoked' = [w \in Wrappers |-> invoked[w] + 1]
  /\ UNCHANGED <<now, wait>>

ScrollNext == ScrollClock \/ \E y \in ScrollYs : ScrollEvent(y)

(* -------------------------------- menu --------------------------------- *)
FadeInDelay == 10
MenuHideDelay == 300

\* the time that may pass before a click
MenuSteps == {MenuHideDelay \div 3, MenuHideDelay}
MenuSpan == 3 * MenuHideDelay

\* the index of the pending menu timer that fires next: the earliest expiry,
\* the one set first among equals
NextMenuTimer ==
  CHOOSE i \in 1..Len(menuTimers) :
    \A j \in 1..Len(menuTimers) :
      \/ menuTimers[i].at < menuTimers[j].at
      \/ menuTimers[i].at = menuTimers[j].at /\ i <= j

RemoveAt(q, i) == SubSeq(q, 1, i - 1) \o SubSeq(q, i + 1, Len(q))

MenuConstructed ==
  /\ navActive = FALSE
  /\ menuHidden = TRUE
  /\ menuFaded = TRUE
  /\ menuTimers = <<>>
  /\ menuClock = 0
  /\ clicks = 0

\* time passes, no further than the next timer's expiry
MenuClockAdvance ==
  /\ clicks < MaxClicks
  /\ \E d \in MenuSteps :
       /\ menuClock + d <= MenuSpan
       /\ menuTimers # <<>> => menuClock + d <= menuTimers[NextMenuTimer].at
       /\ menuClock' = menuClock + d
  /\ UNCHANGED <<navActive, menuHidden, menuFaded, menuTimers, clicks>>

\* navToggle.addEventListener("click", ...)
NavToggleClick ==
  /\ clicks < MaxClicks
  /\ clicks' = clicks + 1
  /\ navActive' = ~navActive
  /\ IF menuHidden
       THEN /\ menuHidden' = FALSE
            /\ menuTimers' = Append(menuTimers,
                 [kind |-> "fadeIn", at |-> menuClock + FadeInDelay])
            /\ UNCHANGED menuFaded
       ELSE /\ menuFaded' = TRUE
            /\ menuTimers' = Append(menuTimers,
                 [kind |-> "hide", at |-> menuClock + MenuHideDelay])
            /\ UNCHANGED menuHidden
  /\ UNCHANGED menuClock

\* a click on a link of the menu, which is displayed; targetEl tells whether
\* the link's href selects an element
AnchorClick(targetEl) ==
  /\ clicks < MaxClicks
  /\ ~menuHidden
  /\ clicks' = clicks + 1
  /\ IF targetEl
       THEN /\ menuFaded' = TRUE
            /\ menuTimers' = Append(menuTimers,
                 [kind |-> "hide", at |-> menuClock + MenuHideDelay])
            /\ navActive' = FALSE
       ELSE UNCHANGED <<menuFaded, menuTimers, navActive>>
  /\ UNCHANGED <<menuHidden, menuClock>>

\* the next pending menu timer expires and its callback runs
MenuTimerFires ==
  /\ menuTimers # <<>>
  /\ LET i == NextMenuTimer
         t == menuTimers[i]
     IN /\ menuClock' = Max(menuClock, t.at)
        /\ menuTimers' = RemoveAt(menuTimers, i)
        /\ IF t.kind = "fadeIn"
             THEN menuFaded' = FALSE /\ UNCHANGED menuHidden
             ELSE menuHidden' = TRUE /\ UNCHANGED menuFaded
  /\ UNCHANGED <<navActive, clicks>>

MenuNext ==
  \/ MenuClockAdvance
  \/ NavToggleClick
  \/ \E targetEl \in BOOLEAN : AnchorClick(targetEl)
  \/ MenuTimerFires

(* ----------------------------- scroll to top --------------------------- *)
Duration == 1500

\* the time between two animation frames, and between a frame and a click
FrameStep == Duration \div 6
FrameSteps == {FrameStep, 2 * FrameStep}
ClickOffsets == {0, FrameStep, 2 * FrameStep}

\* the scroll positions a click may find at first
TopStarts == {0, BtnThreshold + 1, 6 * BtnThreshold}

\* fractions are pairs [n, d] with d > 0, in lowest terms
Abs(x) == IF x < 0 THEN -x ELSE x
RECURSIVE GCD(_, _)
GCD(a, b) == IF b = 0 THEN a ELSE GCD(b, a % b)
Reduce(n, d) == LET g == GCD(Abs(n), d) IN [n |-> n \div g, d |-> d \div g]
One == [n |-> 1, d |-> 1]
Zero == [n |-> 0, d |-> 1]
Cube(x) == x * x * x

\* a progress that is not capped at 1
ProgressUncapped(ts, startTime) == Reduce(ts - startTime, Duration)

\* Math.min((ts - startTime) / duration, 1)
Progress(ts, startTime) ==
  IF ts - startTime >= Duration THEN One ELSE Reduce(ts - startTime, Duration)

\* t < 0.5 ? 4 * t * t * t : 1 - Math.pow(-2 * t + 2, 3) / 2
easeInOutCubic(t) ==
  IF 2 * t.n < t.d
    THEN Reduce(4 * Cube(t.n), Cube(t.d))
    ELSE Reduce(Cube(t.d) - 4 * Cube(t.d - t.n), Cube(t.d))

\* start * (1 - eased), the position handed to window.scrollTo
ScrollTarget(start, eased) == Reduce(start * (eased.d - eased.n), eased.d)

\* the position the window takes: whole pixels
Floor(q) == q.n \div q.d

NoChain == [state |-> "idle", start |-> 0, startTime |-> 0, steps |-> 0,
            lastTo |-> Zero, lastP |-> Zero]

ScrollTopConstructed ==
  /\ frameTs = 0
  /\ chains = [k \in 1..MaxTopClicks |-> NoChain]
  /\ topClicks = 0

\* one run of scrollStep(ts) of chain c: "pending" iff it requested a further
\* frame
\* (progress and eased are bound as values, each computed once per run)
scrollStep(c, ts) ==
  CHOOSE after \in UNION {
      {[c EXCEPT !.state = IF progress.n < progress.d THEN "pending" ELSE "done",
                 !.steps = @ + 1,
                 !.lastTo = ScrollTarget(c.start, eased),
                 !.lastP = progress]
         : eased \in {easeInOutCubic(progress)}}
      : progress \in {Progress(ts, c.startTime)}} : TRUE

\* scrollTopBtn.addEventListener("click", ...)
ScrollTopClick ==
  /\ topClicks < MaxTopClicks
  /\ topClicks' = topClicks + 1
  /\ \E o \in ClickOffsets :
       chains' = [chains EXCEPT ![topClicks + 1] =
                    [state |-> "pending", start |-> scrollY,
                     startTime |-> frameTs + o, steps |-> 0,
                     lastTo |-> Zero, lastP |-> Zero]]
  /\ UNCHANGED <<frameTs, scrollY>>

\* an animation frame: the requested callbacks run with its timestamp, in the
\* order they were requested
Frame ==
  /\ \E d \in FrameSteps :
       LET ts == frameTs + d
           run == {k \in 1..MaxTopClicks : chains[k].state = "pending"}
           after == [k \in 1..MaxTopClicks |->
                       IF k \in run THEN scrollStep(chains[k], ts) ELSE chains[k]]
           lastRun == CHOOSE k \in run : \A j \in run : j <= k
       IN /\ run # {}
          /\ frameTs' = ts
          /\ chains' = after
          /\ scrollY' = Floor(after[lastRun].lastTo)
  /\ UNCHANGED topClicks

TopNext == ScrollTopClick \/ Frame

(* --------------------------- specifications ---------------------------- *)

\* the wrappers as the script constructs them
ThrottleConstructed ==
  /\ now = LoadTime
  /\ wait = [w \in Wrappers |-> ScrollWait]
  /\ last = [w \in Wrappers |-> 0]
  /\ invoked = [w \in Wrappers |-> 0]
  /\ fnLog = [w \in Wrappers |-> <<>>]
  /\ inv = NoInv

\* the typewriter as the script constructs it
TypewriterConstructed ==
  /\ messages = Messages
  /\ typeEl = TRUE
  /\ msgIdx = 0
  /\ charIdx = 0
  /\ deleting = FALSE
  /\ innerHTML = <<>>
  /\ timers = <<>>
  /\ loaded = FALSE
  /\ ticks = 0
  /\ ran = NoTick
  /\ prev = NoTick
  /\ shownFull = FALSE
  /\ cycles = 0

ThrottleStep == ThrottleNext /\ UNCHANGED <<twVars, scVars, mnVars, tpVars>>
TypewriterTick == TypewriterNext /\ UNCHANGED <<thVars, scVars, mnVars, tpVars>>

\* the parts of the page a specification leaves as constructed
OthersConstructed == ScrollConstructed /\ MenuConstructed /\ ScrollTopConstructed

\* throttle wrappers of any wait, invoked at any clock readings
ThrottleInit == InitThrottle /\ TypewriterConstructed /\ OthersConstructed
SpecThrottle == ThrottleInit /\ [][ThrottleStep]_vars

\* the typewriter on any of the message lists
TypewriterInit == ThrottleConstructed /\ InitTypewriter /\ OthersConstructed
SpecTypewriter == TypewriterInit /\ [][TypewriterTick]_vars

\* the typewriter left to run for ever, every scheduled timer firing in the end
TypewriterLoop ==
  /\ DOMContentLoaded \/ TimerExpires
  /\ UNCHANGED <<thVars, scVars, mnVars, tpVars>>
SpecTypewriterLoop ==
  TypewriterInit /\ [][TypewriterLoop]_vars /\ WF_vars(TypewriterLoop)

\* the wrappers and the typewriter of one page, their callbacks interleaved by
\* the event loop
PageInit == InitThrottle /\ TypewriterConstructed /\ OthersConstructed
PageThrottle ==
  /\ ThrottleStep
  /\ now' <= PageTime
  /\ \A w \in Wrappers : invoked'[w] <= PageCalls
PageTypewriter == TypewriterTick /\ ticks' <= PageTicks
PageNext == PageThrottle \/ PageTypewriter
SpecPage == PageInit /\ [][PageNext]_vars

\* scroll events at any of the scroll positions, any of the steps apart
ScrollInit ==
  /\ ThrottleConstructed /\ TypewriterConstructed
  /\ ScrollConstructed /\ MenuConstructed /\ ScrollTopConstructed
ScrollStep == ScrollNext /\ UNCHANGED <<twVars, mnVars, tpVars>>
SpecScroll == ScrollInit /\ [][ScrollStep]_vars

\* clicks on the menu button and on the menu's links, at any of the steps apart
MenuInit ==
  /\ ThrottleConstructed /\ TypewriterConstructed
  /\ ScrollConstructed /\ MenuConstructed /\ ScrollTopConstructed
MenuStep == MenuNext /\ UNCHANGED <<thVars, twVars, scVars, tpVars>>
SpecMenu == MenuInit /\ [][MenuStep]_vars

\* clicks on the scroll-to-top button from any of the scroll positions, the
\* animation frames being delivered as long as one is requested
TopInit ==
  /\ ThrottleConstructed /\ TypewriterConstructed
  /\ MenuConstructed /\ ScrollTopConstructed
  /\ scrollY \in TopStarts
  /\ navBlur = NavbarFn(scrollY)
  /\ btnShow = ScrollTopFn(scrollY)
  /\ scrolls = 0
TopFrames == Frame /\ UNCHANGED <<thVars, twVars, mnVars, navBlur, btnShow, scrolls>>
TopStep == TopNext /\ UNCHANGED <<thVars, twVars, mnVars, navBlur, btnShow, scrolls>>
SpecScrollTop == TopInit /\ [][TopStep]_vars /\ WF_vars(TopFrames)

Init == InitThrottle /\ InitTypewriter /\ OthersConstructed
Next == ThrottleStep \/ TypewriterTick \/ ScrollStep \/ MenuStep \/ TopStep
Spec == Init /\ [][Next]_vars

(* ------------------------------- claims -------------------------------- *)

\* C1: an invocation of a wrapper made after an earlier forwarded one calls fn
\* iff its clock reading minus the reading of the last forwarded invocation is
\* at least wait, so two consecutive forwarded calls are at least wait apart.
C1_ThrottleWindow ==
  /\ (inv.w # "none" /\ inv.logBefore # <<>>) =>
       (inv.called <=>
          inv.at - inv.logBefore[Len(inv.logBefore)] >= wait[inv.w])
  /\ \A w \in Wrappers : \A i \in 1..(Len(fnLog[w]) - 1) :
       fnLog[w][i + 1] - fnLog[w][i] >= wait[w]

\* a call forwarded at t0, one dropped inside the window, and one forwarded at
\* exactly t0 + wait
C1_Witness ==
  /\ inv.w # "none"
  /\ inv.called
  /\ wait[inv.w] = 2
  /\ invoked[inv.w] = 3
  /\ Len(fnLog[inv.w]) = 2
  /\ fnLog[inv.w][2] - fnLog[inv.w][1] = wait[inv.w]

\* C5: the first invocation of a wrapper always calls fn, whatever the wait
\* and the clock reading.
C5_FirstInvocationCalls ==
  (inv.w # "none" /\ inv.first) => inv.called

\* C6: an invocation inside the window leaves `last` unchanged and calls
\* nothing; fn is called only inside an invocation that passed the check, once
\* and at that invocation's clock reading.
C6_LossyThrottle ==
  [][\A w \in Wrappers :
       LET isInv == invoked'[w] = invoked[w] + 1
           pass == now - last[w] >= wait[w]
       IN /\ (isInv /\ ~pass) => (last'[w] = last[w] /\ fnLog'[w] = fnLog[w])
          /\ (isInv /\ pass) => fnLog'[w] = Append(fnLog[w], now)
          /\ ~isInv => (fnLog'[w] = fnLog[w] /\ last'[w] = last[w])]_vars

\* an invocation dropped inside the window of an earlier forwarded one, at a
\* later clock reading
C6_Witness ==
  /\ inv.w # "none"
  /\ ~inv.called
  /\ inv.logBefore # <<>>
  /\ inv.at > inv.lastBefore
  /\ last[inv.w] = inv.lastBefore
  /\ fnLog[inv.w] = inv.logBefore

\* C2: msgIdx is an index of the list and charIdx is between 0 and the length
\* of the current message.
C2_IndicesInBounds ==
  /\ msgIdx \in 0..(Len(messages) - 1)
  /\ charIdx \in 0..Len(messages[msgIdx + 1])

\* msgIdx has advanced from an empty message to a longer one, which is now
\* revealed in full
C2_Witness ==
  /\ Len(messages) = 3
  /\ msgIdx = 2
  /\ Len(messages[2]) = 0
  /\ Len(messages[1]) = 1
  /\ Len(messages[3]) = 2
  /\ charIdx = 2
  /\ deleting

\* C3: msgIdx changes only on the tick that ends a full reveal-then-delete
\* cycle of the current message, and then becomes (msgIdx + 1) mod count, so
\* the messages are shown in list order, rotation after rotation.
C3_Rotation ==
  /\ [](typeEl => msgIdx = cycles % Len(messages))
  /\ [][msgIdx' # msgIdx =>
          /\ ticks' = ticks + 1
          /\ deleting /\ charIdx = 0 /\ shownFull
          /\ Rendered(innerHTML') = <<>>
          /\ msgIdx' = (msgIdx + 1) % Len(messages)]_vars

\* the 3-message list is back at message 0 after two full rotations
C3_Witness ==
  /\ messages = Messages
  /\ cycles = 6
  /\ msgIdx = 0
  /\ ran.msgIdx = 2

\* C4: each tick applies the one rule (deleting, charIdx) selects and schedules
\* the next tick with that rule's delay.
C4_FourRules ==
  [][ticks' = ticks + 1 =>
       LET len == Len(messages[msgIdx + 1])
       IN /\ Len(timers') = Len(timers) \/ (~loaded /\ Len(timers') = 1)
          /\ Len(timers') >= 1
          /\ CASE ~deleting /\ charIdx < len ->
                    /\ charIdx' = charIdx + 1
                    /\ deleting' = deleting /\ msgIdx' = msgIdx
                    /\ timers'[Len(timers')] = 100
               [] ~deleting /\ charIdx = len ->
                    /\ deleting' = TRUE
                    /\ charIdx' = charIdx /\ msgIdx' = msgIdx
                    /\ timers'[Len(timers')] = 1500
               [] deleting /\ charIdx > 0 ->
                    /\ charIdx' = charIdx - 1
                    /\ deleting' = deleting /\ msgIdx' = msgIdx
                    /\ timers'[Len(timers')] = 50
               [] deleting /\ charIdx = 0 ->
                    /\ deleting' = FALSE
                    /\ msgIdx' = (msgIdx + 1) % Len(messages)
                    /\ charIdx' = charIdx
                    /\ timers'[Len(timers')] = 500
               [] OTHER -> FALSE]_vars

\* all four rules have been applied on the 3-message list: the last one has
\* just advanced msgIdx, with 500 ms to the next tick
C4_Witness ==
  /\ messages = Messages
  /\ ran.deleting /\ ran.charIdx = 0
  /\ ~deleting
  /\ msgIdx = 1
  /\ timers = <<500>>

\* C7: deleting becomes true only on a tick that reads charIdx = length of the
\* current message, and false only on a tick that reads charIdx = 0.
C7_DeletingFlips ==
  [][deleting' # deleting =>
       /\ ticks' = ticks + 1
       /\ IF deleting THEN charIdx = 0
                      ELSE charIdx = Len(messages[msgIdx + 1])]_vars

\* both flips have happened on a message of several characters
C7_Witness ==
  /\ cycles = 1
  /\ ~deleting
  /\ ran.deleting
  /\ shownFull = FALSE
  /\ Len(messages[ran.msgIdx + 1]) >= 2

\* C8: the ticks of a revealing phase (those run with deleting = false) render
\* the empty text first, then each a one-character extension of what the tick
\* before rendered, and the phase ends on the tick that renders the full
\* message.
C8_RevealMonotone ==
  (ran.n >= 0 /\ ~ran.deleting) =>
    LET msg == messages[ran.msgIdx + 1]
        inPhase == prev.n >= 0 /\ ~prev.deleting
    IN /\ inPhase =>
            /\ prev.msgIdx = ran.msgIdx
            /\ prev.txt # msg
            /\ Len(ran.txt) = Len(prev.txt) + 1
            /\ SubSeq(ran.txt, 1, Len(prev.txt)) = prev.txt
       /\ ~inPhase => ran.txt = <<>>
       /\ ran.txt = SubSeq(msg, 1, Len(ran.txt))
       /\ deleting <=> ran.txt = msg

\* the revealing phase of "Welcome" has just rendered the full message
C8_Witness ==
  /\ messages = Messages
  /\ ran.n >= 0 /\ ~ran.deleting
  /\ prev.n >= 0 /\ ~prev.deleting
  /\ ran.txt = Welcome
  /\ deleting

\* C9: the ticks of a deleting phase (those run with deleting = true) render
\* the full message first, then each a one-character truncation of what the
\* tick before rendered, and the phase ends on the tick that renders the
\* empty text.
C9_DeleteMonotone ==
  (ran.n >= 0 /\ ran.deleting) =>
    LET msg == messages[ran.msgIdx + 1]
        inPhase == prev.n >= 0 /\ prev.deleting
    IN /\ inPhase =>
            /\ prev.msgIdx = ran.msgIdx
            /\ prev.txt # <<>>
            /\ Len(ran.txt) = Len(prev.txt) - 1
            /\ ran.txt = SubSeq(prev.txt, 1, Len(prev.txt) - 1)
       /\ ~inPhase => ran.txt = msg
       /\ ~deleting <=> ran.txt = <<>>

\* the deleting phase of "Welcome" has just rendered the empty text
C9_Witness ==
  /\ messages = Messages
  /\ ran.n >= 0 /\ ran.deleting
  /\ prev.n >= 0 /\ prev.deleting
  /\ ran.msgIdx = 1
  /\ ran.txt = <<>>
  /\ ~deleting

\* C10 as stated: on ["Hi"], ticks 0..2 render "", "H", "Hi"; tick 3 renders
\* "Hi", flips to deleting and schedules 1500 ms; tick 4 renders "H"; tick 5
\* renders "", flips back and schedules 500 ms; tick 6 restarts at msgIdx 0.
C10_AsStated ==
  (messages = <<Hi>> /\ typeEl) =>
    /\ ran.n = 0 => ran.txt = <<>>
    /\ ran.n = 1 => ran.txt = <<"H">>
    /\ ran.n = 2 => ran.txt = Hi
    /\ ran.n = 3 => (/\ ran.txt = Hi
                     /\ ~ran.deleting /\ deleting
                     /\ ran.delay = 1500)
    /\ ran.n = 4 => ran.txt = <<"H">>
    /\ ran.n = 5 => (/\ ran.txt = <<>>
                     /\ ran.deleting /\ ~deleting
                     /\ ran.delay = 500)
    /\ ran.n = 6 => (ran.msgIdx = 0 /\ ran.charIdx = 0 /\ ~ran.deleting)

\* C10, amended: on ["Hi"], ticks 0..2 render "", "H", "Hi"; it is tick 2
\* that flips to deleting and schedules 1500 ms; tick 3 renders "Hi" again, in
\* deleting mode, with 50 ms to the next tick; tick 4 renders "H"; tick 5
\* renders "", flips back and schedules 500 ms; tick 6 restarts at msgIdx 0.
C10_HiScenario ==
  (messages = <<Hi>> /\ typeEl) =>
    /\ ran.n = 0 => (ran.txt = <<>> /\ ran.delay = 100)
    /\ ran.n = 1 => (ran.txt = <<"H">> /\ ran.delay = 100)
    /\ ran.n = 2 => (/\ ran.txt = Hi
                     /\ ~ran.deleting /\ deleting
                     /\ ran.delay = 1500)
    /\ ran.n = 3 => (/\ ran.txt = Hi
                     /\ ran.deleting /\ deleting
                     /\ ran.delay = 50)
    /\ ran.n = 4 => (ran.txt = <<"H">> /\ ran.deleting /\ ran.delay = 50)
    /\ ran.n = 5 => (/\ ran.txt = <<>>
                     /\ ran.deleting /\ ~deleting
                     /\ ran.delay = 500)
    /\ ran.n = 6 => (/\ ran.msgIdx = 0 /\ ran.charIdx = 0 /\ ~ran.deleting
                     /\ ran.txt = <<>>)
    /\ ran.n >= 0 => Rendered(innerHTML) = ran.txt

\* tick 6 of the ["Hi"] scenario has run
C10_Witness ==
  /\ messages = <<Hi>>
  /\ ran.n = 6
  /\ ran.msgIdx = 0
  /\ prev.n = 5
  /\ Rendered(innerHTML) = <<>>

\* C11: when the display target is absent the typewriter renders nothing,
\* leaves msgIdx, charIdx and deleting at their initial values and never has a
\* timer pending.
C11_AbsentTarget ==
  ~typeEl =>
    /\ innerHTML = <<>>
    /\ msgIdx = 0 /\ charIdx = 0 /\ ~deleting
    /\ timers = <<>>
    /\ ticks = 0 /\ ran = NoTick

\* DOMContentLoaded has called typewriter() with the display target absent
C11_Witness ==
  /\ ~typeEl
  /\ loaded
  /\ timers = <<>>

\* C13: after the start at most one typewriter timer is pending; each tick
\* takes its own timer off, renders the state it read, updates it and
\* schedules exactly one next tick; the next tick reads exactly the state this
\* tick wrote, which differs from the state this tick read.
C13_Sequential ==
  /\ [](/\ Len(timers) <= 1
        /\ (loaded /\ typeEl) => Len(timers) = 1
        /\ prev.n >= 0 =>
             LET s == TypewriterStep(messages, prev.msgIdx, prev.charIdx,
                                     prev.deleting)
             IN /\ ran.n = prev.n + 1
                /\ ran.msgIdx = s.msgIdx
                /\ ran.charIdx = s.charIdx
                /\ ran.deleting = s.deleting
                /\ <<ran.msgIdx, ran.charIdx, ran.deleting>> #
                     <<prev.msgIdx, prev.charIdx, prev.deleting>>)
  /\ [][ticks' = ticks + 1 =>
          /\ Len(timers) = (IF loaded THEN 1 ELSE 0)
          /\ Len(timers') = 1
          /\ Rendered(innerHTML') =
               Substring(messages[msgIdx + 1], 0, charIdx)
          /\ <<msgIdx', charIdx', deleting'>> # <<msgIdx, charIdx, deleting>>
          /\ timers'[1] = ran'.delay]_vars

\* a chain of ticks through the 1500 ms hold, one timer pending after each
C13_Witness ==
  /\ messages = Messages
  /\ ran.n >= 6
  /\ prev.delay = 1500
  /\ ran.deleting
  /\ timers = <<50>>

\* C12: with the display target present and every scheduled timer firing in
\* the end, a further tick always eventually runs and every message of the
\* list is rendered in full again and again.
C12_LoopsForever ==
  /\ typeEl => []<><<TimerExpires>>_vars
  /\ \A i \in 1..Max(MaxMsgs, Len(Messages)) :
       typeEl => []<>(\/ i > Len(messages)
                      \/ /\ ran.n >= 0
                         /\ ran.msgIdx = i - 1
                         /\ ran.txt = messages[i]
                         /\ Rendered(innerHTML) = messages[i])

\* the last message of the 3-message list is rendered in full on a tick past
\* the counted ones
C12_Witness ==
  /\ messages = Messages
  /\ ran.n = MaxTicks /\ prev.n = MaxTicks
  /\ ran.msgIdx = 2
  /\ Rendered(innerHTML) = ImSyalom

\* C14: an invocation of one wrapper changes neither the other wrapper's
\* `last` or calls nor the typewriter's msgIdx, charIdx, deleting or timers,
\* and a typewriter tick changes no wrapper's `last` or calls.
C14_ExclusiveState ==
  [][/\ \A w \in Wrappers :
          invoked'[w] # invoked[w] =>
            /\ \A v \in Wrappers \ {w} :
                 last'[v] = last[v] /\ fnLog'[v] = fnLog[v]
            /\ <<msgIdx', charIdx', deleting'>> = <<msgIdx, charIdx, deleting>>
            /\ timers' = timers /\ innerHTML' = innerHTML
     /\ (ticks' # ticks) =>
          (last' = last /\ fnLog' = fnLog /\ invoked' = invoked)]_vars

\* both wrappers have forwarded calls at different clock readings while the
\* typewriter was in the middle of a message
C14_Witness ==
  /\ fnLog["navbar"] # <<>> /\ fnLog["scrollTop"] # <<>>
  /\ last["navbar"] # last["scrollTop"]
  /\ inv.w = "scrollTop" /\ inv.called
  /\ ticks >= 3 /\ charIdx >= 2
  /\ Len(timers) = 1

\* C15: once a scroll event has been delivered, the navbar is blurred iff
\* scrollY > 50 and the scroll-to-top button shows iff scrollY > 200.
C15_PresentationMatches ==
  scrolls >= 1 =>
    /\ navBlur <=> scrollY > 50
    /\ btnShow <=> scrollY > 200

\* C16: once the menu has been clicked and every pending menu timer has
\* fired, navToggle carries hamburger-active iff mobileMenu is not hidden.
C16_ToggleMatchesMenu ==
  (clicks >= 1 /\ menuTimers = <<>>) => (navActive <=> ~menuHidden)

\* C17: a chain requests a further frame only while progress < 1, its last
\* step has progress 1 and scrolls to position 0, it never runs again after
\* that, and every started chain reaches its last step.
C17_ScrollTopTerminates ==
  /\ [](\A k \in 1..MaxTopClicks :
          /\ chains[k].state = "done" =>
               (chains[k].lastP = One /\ chains[k].lastTo = Zero)
          /\ (chains[k].state = "pending" /\ chains[k].steps > 0) =>
               chains[k].lastP.n < chains[k].lastP.d)
  /\ [][\A k \in 1..MaxTopClicks :
          chains[k].state = "done" => chains'[k] = chains[k]]_vars
  /\ \A k \in 1..MaxTopClicks :
       (chains[k].state = "pending") ~> (chains[k].state = "done")

\* two chains have ended at the top, the second one started in mid-scroll
C17_Witness ==
  /\ chains[1].state = "done" /\ chains[2].state = "done"
  /\ chains[1].start = 6 * BtnThreshold
  /\ chains[2].start \notin TopStarts
  /\ chains[1].steps >= 4
  /\ scrollY = 0

====
